---- MODULE Spec2Model ----
(***************************************************************************)
(* gowatcher (src/main.go): a directory-backed transcoding pipeline.       *)
(* main sets up queue/upload/working/finished, starts a worker goroutine   *)
(* reading filesChan, starts a watcher goroutine reading fsnotify events,  *)
(* subscribes to the queue directory, scans the backlog, then waits for    *)
(* an interrupt.  Paths are sequences of one-character strings so that     *)
(* path.Ext, filepath.Base and the leading-dot tests are computed.         *)
(***************************************************************************)
EXTENDS Integers, Sequences, FiniteSets, TLC

(* ---------------- bounds ---------------- *)
\* the number of events of the environment: creations and removals by the
\* operator in queue, errors of the notification stream
MaxOps == 2
\* the longest file name of the naming specification
MaxNameLen == 3
\* the number of times the program is started again on the same base path
MaxRestarts == 1
\* the number of events of the environment in the fair specification
FairOps == 1

(* ---------------- program constants ---------------- *)
\* capacity of filesChan: make(chan string) is unbuffered
ChanCap == 0
\* capacity of the interrupt channel: make(chan os.Signal, 1)
InterruptCap == 1

QueueDirAbs == <<"/", "q">>
WorkingDirAbs == <<"/", "w">>
FinishedDirAbs == <<"/", "f">>
Mp4 == <<".", "m", "p", "4">>

(* ---------------- the file names of the model ---------------- *)
NameAM == <<"a", ".", "m">>
NameAV == <<"a", ".", "v">>
NameHidden == <<".", "h">>
NameD == <<"d">>
Names == {NameAM, NameAV, NameHidden, NameD}
\* what the operator creates under each name: d is a directory
KindOf(n) == IF n = NameD THEN "dir" ELSE "file"

(* ---------------- path functions ---------------- *)
\* filepath.Join(dir, name) for a clean dir and a plain name
Join(dir, name) == dir \o <<"/">> \o name

\* path.Ext: the suffix from the last '.' of the last slash-separated element
RECURSIVE ExtFrom(_, _)
ExtFrom(p, i) ==
  IF i = 0 THEN <<>>
  ELSE IF p[i] = "/" THEN <<>>
  ELSE IF p[i] = "." THEN SubSeq(p, i, Len(p))
  ELSE ExtFrom(p, i - 1)

ExtAbsent(p) == <<>>
Ext(p) == ExtFrom(p, Len(p))

\* filepath.Base: the last element of the path
RECURSIVE StripTrailingSlashes(_)
StripTrailingSlashes(p) ==
  IF Len(p) > 0 /\ p[Len(p)] = "/"
  THEN StripTrailingSlashes(SubSeq(p, 1, Len(p) - 1))
  ELSE p

RECURSIVE LastSlash(_, _)
LastSlash(p, i) ==
  IF i = 0 THEN 0 ELSE IF p[i] = "/" THEN i ELSE LastSlash(p, i - 1)

LastElement(s) == SubSeq(s, LastSlash(s, Len(s)) + 1, Len(s))

Base(p) ==
  IF Len(p) = 0 THEN <<".">>
  ELSE CHOOSE t \in {IF Len(LastElement(s)) = 0 THEN <<"/">> ELSE LastElement(s) :
                       s \in {StripTrailingSlashes(p)}} : TRUE

\* outFile := file[0:len(file)-len(ext)] + ".mp4"
OutFile(file) == SubSeq(file, 1, Len(file) - Len(Ext(file))) \o Mp4
\* workingFilepath / finishedFilePath := dir + "/" + filepath.Base(outFile)
WorkingFilepath(file) == WorkingDirAbs \o <<"/">> \o Base(OutFile(file))
FinishedFilePath(file) == FinishedDirAbs \o <<"/">> \o Base(OutFile(file))

(* ---------------- the dot-file and directory tests ---------------- *)
\* backlog scan: !file.IsDir() && file.Name()[0] != '.'
ScanAcceptsOnlyHidden(name, kind) == kind # "dir" /\ name[1] = "."
ScanAccepts(name, kind) == kind # "dir" /\ name[1] # "."

\* watcher: !info.IsDir() && string(event.Name[0]) != "."
\* (event.Name is the path fsnotify reports, the watched directory joined
\*  with the entry's name)
WatcherAccepts(evname, kind) == kind # "dir" /\ evname[1] # "."

(* ---------------- directory listing order ---------------- *)
Ord(c) ==
  CASE c = "." -> 46 [] c = "/" -> 47 [] c = "4" -> 52 [] c = "a" -> 97
    [] c = "b" -> 98 [] c = "d" -> 100 [] c = "f" -> 102 [] c = "h" -> 104
    [] c = "m" -> 109 [] c = "p" -> 112 [] c = "q" -> 113 [] c = "v" -> 118
    [] c = "w" -> 119 [] OTHER -> 127

RECURSIVE NameLess(_, _)
NameLess(a, b) ==
  IF Len(a) = 0 THEN Len(b) > 0
  ELSE IF Len(b) = 0 THEN FALSE
  ELSE IF a[1] # b[1] THEN Ord(a[1]) < Ord(b[1])
  ELSE NameLess(Tail(a), Tail(b))

RECURSIVE SortNames(_)
SortNames(S) ==
  IF S = {} THEN <<>>
  ELSE LET m == CHOOSE x \in S : \A y \in S \ {x} : NameLess(x, y)
       IN <<m>> \o SortNames(S \ {m})

(* ---------------- state ---------------- *)
VARIABLES
  proc,       \* "running" or "exited"
  exitCode,   \* -1 while running; 0 interrupt, 1 fatal error, 2 panic
  mpc,        \* position of main
  wpc,        \* position of the worker goroutine
  tpc,        \* position of the watcher goroutine
  dirs,       \* kind of base, queue, upload, working, finished
  queue,      \* entries of the queue directory: name -> "none"/"file"/"dir"
  working,    \* files of the working directory: output name -> content
  finished,   \* files of the finished directory: output name -> content
  filesChan,  \* paths sent on filesChan and not yet taken by the worker
  interrupt,  \* signals buffered in the interrupt channel
  watching,   \* watcher.Add(queueDirAbs) has succeeded
  events,     \* watcher.Events: events not yet read by the watcher goroutine
  files,      \* result of ioutil.ReadDir(queueDirAbs)
  idx,        \* index of the backlog loop in files
  wfile,      \* the path the worker is working on
  tfile,      \* the path the watcher goroutine is sending
  cmds,       \* number of running transcode commands
  started,    \* history: number of transcode commands started
  sent,       \* history: sends completed on filesChan, in order
  lastJob,    \* history: the last job the worker resolved
  created,    \* history: names created in queue during the run
  atStart,    \* history: queue and working as they were when the process started
  nops,       \* number of events of the environment in queue so far
  werr,       \* watcher.Errors: "none", an error "pending", or the last one "logged"
  enq,        \* history: sends of each name since its entry last appeared
  boots       \* history: number of restarts after a completed directory setup

vars == <<proc, exitCode, mpc, wpc, tpc, dirs, queue, working, finished,
          filesChan, interrupt, watching, events, files, idx, wfile, tfile,
          cmds, started, sent, lastJob, created, atStart, nops, werr, enq,
          boots>>

mainVars == <<mpc, files, idx>>
workerVars == <<wpc, wfile, cmds, started, lastJob>>
watcherVars == <<tpc, tfile, werr>>
fsVars == <<dirs, queue, working, finished>>
envVars == <<created, atStart, nops, enq, boots>>

DirNames == {"base", "queue", "upload", "working", "finished"}
NoFile == <<>>
NoJob == [file |-> NoFile, outcome |-> "none"]
EmptyDir == [n \in {} |-> 0]
Orphan == [src |-> NoFile, state |-> "partial"]

\* the name of a queue entry from its absolute path
NameOf(p) == SubSeq(p, Len(QueueDirAbs) + 2, Len(p))

Put(dir, name, content) ==
  [n \in DOMAIN dir \cup {name} |-> IF n = name THEN content ELSE dir[n]]
Del(dir, name) == [n \in DOMAIN dir \ {name} |-> dir[n]]

(* ---------------- initial states ---------------- *)
\* the directories at startup: all present (a restart); only the base
\* present, with a file in the place of finished; finished a file; no base
AllDirs == [d \in DirNames |-> "dir"]
InitDirs ==
  { AllDirs,
    [d \in DirNames |-> IF d = "base" THEN "dir"
                        ELSE IF d = "finished" THEN "file" ELSE "absent"],
    [AllDirs EXCEPT !["finished"] = "file"],
    [AllDirs EXCEPT !["base"] = "absent", !["queue"] = "absent",
                    !["upload"] = "absent", !["working"] = "absent",
                    !["finished"] = "absent"] }

NoEntries == [n \in Names |-> "none"]
\* the backlog: two files with the same name before their extension
\* (hidden files and directories enter queue by EnvCreate, before or after
\* the listing)
Backlog == [NoEntries EXCEPT ![NameAM] = "file", ![NameAV] = "file"]

\* what a crash or a failed transcode left in working
Leftover == Put(Put(EmptyDir, Base(OutFile(NameAM)), Orphan), NameD, Orphan)

\* the state when main is entered, over the directories d and the entries q
\* of queue
Start(d, q) ==
  /\ proc = "running"
  /\ exitCode = -1
  /\ mpc = "checkBase"
  /\ wpc = "notStarted"
  /\ tpc = "notStarted"
  /\ dirs = d
  /\ queue = q
  /\ working = (IF dirs["working"] = "dir" THEN Leftover ELSE EmptyDir)
  /\ finished = EmptyDir
  /\ filesChan = <<>>
  /\ interrupt = 0
  /\ watching = FALSE
  /\ events = <<>>
  /\ files = <<>>
  /\ idx = 1
  /\ wfile = NoFile
  /\ tfile = NoFile
  /\ cmds = 0
  /\ started = 0
  /\ sent = <<>>
  /\ lastJob = NoJob
  /\ created = {}
  /\ atStart = [queue |-> queue, working |-> working]
  /\ nops = 0
  /\ werr = "none"
  /\ enq = [n \in Names |-> 0]
  /\ boots = 0

Init ==
  \E d \in InitDirs :
    Start(d, IF d["queue"] = "dir" THEN Backlog ELSE NoEntries)

(* ---------------- process exit ---------------- *)
\* os.Exit(code), return from main, or a panic: every goroutine stops
Exit(code) == proc' = "exited" /\ exitCode' = code

Running == proc = "running"
StillRunning == UNCHANGED <<proc, exitCode>>

(* ---------------- utilities.go ---------------- *)
\* dirExists: (exists, err) from the kind of the path and the stat's failure
dirExists(kind, statErr) ==
  IF statErr THEN [exists |-> FALSE, err |-> TRUE]
  ELSE IF kind = "absent" \/ kind # "dir" THEN [exists |-> FALSE, err |-> FALSE]
  ELSE [exists |-> TRUE, err |-> FALSE]

\* createDir: the error it returns and the kind of the path afterwards;
\* os.Mkdir fails when the path exists (as a non-directory) or on a fault
createDirMkdirOnly(kind, statErr, mkdirErr) ==
  IF kind # "absent" \/ mkdirErr THEN [err |-> TRUE, kind |-> kind]
  ELSE [err |-> FALSE, kind |-> "dir"]
createDir(kind, statErr, mkdirErr) ==
  LET r == dirExists(kind, statErr)
  IN IF r.err THEN [err |-> TRUE, kind |-> kind]
     ELSE IF r.exists THEN [err |-> FALSE, kind |-> kind]
     ELSE IF kind # "absent" \/ mkdirErr THEN [err |-> TRUE, kind |-> kind]
     ELSE [err |-> FALSE, kind |-> "dir"]

(* ---------------- filesChan ---------------- *)
\* the worker is blocked in "for file := range filesChan": cmd.Run() has
\* returned and the job is resolved
WorkerReadyAlways == wpc \in {"recv", "run"}
WorkerReady == wpc = "recv"

\* a send on filesChan completes when the buffer has room or the worker is
\* blocked in its receive (then the value is handed to it)
CanSendAlways == TRUE
CanSend ==
  Len(filesChan) < ChanCap + (IF WorkerReady THEN 1 ELSE 0)

Send(path, src) ==
  /\ CanSend
  /\ filesChan' = Append(filesChan, path)
  /\ sent' = Append(sent, [src |-> src, path |-> path])
  /\ enq' = [enq EXCEPT ![NameOf(path)] = @ + 1]

(* ---------------- main: startup ---------------- *)
\* the order of main's statements
MainOrderWorkerLast ==
  <<"checkBase", "createQueue", "createUpload", "resetWorking",
    "createFinished", "newWatcher", "watcherAdd", "readDir", "scan",
    "lookPath", "wait">>
MainOrderScanFirst ==
  <<"checkBase", "createQueue", "createUpload", "resetWorking",
    "createFinished", "lookPath", "readDir", "scan", "newWatcher",
    "watcherAdd", "wait">>
MainOrder ==
  <<"checkBase", "createQueue", "createUpload", "resetWorking",
    "createFinished", "lookPath", "newWatcher", "watcherAdd", "readDir",
    "scan", "wait">>

PosOf(pc) == CHOOSE i \in 1..Len(MainOrder) : MainOrder[i] = pc
After(pc) == MainOrder[PosOf(pc) + 1]

\* baseDir := os.Getenv("BASE_DIR"); dirExists(baseDir); filepath.Abs
MainCheckBase ==
  /\ Running /\ mpc = "checkBase"
  /\ \E statErr \in BOOLEAN :
       LET r == dirExists(dirs["base"], statErr)
       IN IF r.err \/ ~r.exists
          THEN Exit(1) /\ UNCHANGED mpc
          ELSE mpc' = After(mpc) /\ StillRunning
  /\ UNCHANGED <<files, idx, workerVars, watcherVars, fsVars, envVars,
                 filesChan, interrupt, watching, events, sent>>

CreateSteps ==
  [createQueue |-> "queue", createUpload |-> "upload", createFinished |-> "finished"]

\* createDir(queueDirAbs), createDir(uploadDirAbs), createDir(finishedDirAbs)
MainCreateDir ==
  /\ Running /\ mpc \in DOMAIN CreateSteps
  /\ \E statErr \in BOOLEAN, mkdirErr \in BOOLEAN :
       LET d == CreateSteps[mpc]
           r == createDir(dirs[d], statErr, mkdirErr)
       IN /\ dirs' = [dirs EXCEPT ![d] = r.kind]
          /\ IF r.err
             THEN Exit(1) /\ UNCHANGED mpc
             ELSE mpc' = After(mpc) /\ StillRunning
  /\ UNCHANGED <<files, idx, workerVars, watcherVars, queue, working, finished,
                 envVars, filesChan, interrupt, watching, events, sent>>

\* os.RemoveAll(workingDirAbs); createDir(workingDirAbs)
ResetWorkingKeep(removeErr, statErr, mkdirErr) ==
  IF removeErr
  THEN [err |-> TRUE, kind |-> dirs["working"], content |-> working]
  ELSE LET r == createDir(dirs["working"], statErr, mkdirErr)
       IN [err |-> r.err, kind |-> r.kind, content |-> working]

ResetWorking(removeErr, statErr, mkdirErr) ==
  IF removeErr
  THEN [err |-> TRUE, kind |-> dirs["working"], content |-> working]
  ELSE LET r == createDir("absent", statErr, mkdirErr)
       IN [err |-> r.err, kind |-> r.kind, content |-> EmptyDir]

MainResetWorking ==
  /\ Running /\ mpc = "resetWorking"
  /\ \E removeErr \in BOOLEAN, statErr \in BOOLEAN, mkdirErr \in BOOLEAN :
       LET r == ResetWorking(removeErr, statErr, mkdirErr)
       IN /\ dirs' = [dirs EXCEPT !["working"] = r.kind]
          /\ working' = r.content
          /\ IF r.err
             THEN Exit(1) /\ UNCHANGED mpc
             ELSE mpc' = After(mpc) /\ StillRunning
  /\ UNCHANGED <<files, idx, workerVars, watcherVars, queue, finished,
                 envVars, filesChan, interrupt, watching, events, sent>>

\* exec.LookPath("ffmpeg"), then go func() { for file := range filesChan ... }
MainStartWorker ==
  /\ Running /\ mpc = "lookPath"
  /\ \E lookErr \in BOOLEAN :
       IF lookErr
       THEN Exit(1) /\ UNCHANGED <<mpc, wpc>>
       ELSE mpc' = After(mpc) /\ wpc' = "recv" /\ StillRunning
  /\ UNCHANGED <<files, idx, wfile, cmds, started, lastJob, watcherVars,
                 fsVars, envVars, filesChan, interrupt, watching, events, sent>>

\* fsnotify.NewWatcher(), then go func() { for { select ... } }
MainNewWatcher ==
  /\ Running /\ mpc = "newWatcher"
  /\ \E newErr \in BOOLEAN :
       IF newErr
       THEN Exit(1) /\ UNCHANGED <<mpc, tpc>>
       ELSE mpc' = After(mpc) /\ tpc' = "select" /\ StillRunning
  /\ UNCHANGED <<files, idx, workerVars, tfile, werr, fsVars, envVars,
                 filesChan, interrupt, watching, events, sent>>

\* watcher.Add(queueDirAbs)
MainWatcherAdd ==
  /\ Running /\ mpc = "watcherAdd"
  /\ \E addErr \in BOOLEAN :
       IF addErr \/ dirs["queue"] # "dir"
       THEN Exit(1) /\ UNCHANGED <<mpc, watching>>
       ELSE mpc' = After(mpc) /\ watching' = TRUE /\ StillRunning
  /\ UNCHANGED <<files, idx, workerVars, watcherVars, fsVars, envVars,
                 filesChan, interrupt, events, sent>>

\* ioutil.ReadDir(queueDirAbs): the entries sorted by file name
ReadDir ==
  LET names == SortNames({n \in Names : queue[n] # "none"})
  IN [i \in 1..Len(names) |-> [name |-> names[i], kind |-> queue[names[i]]]]

MainReadDir ==
  /\ Running /\ mpc = "readDir"
  /\ \E readErr \in BOOLEAN :
       IF readErr \/ dirs["queue"] # "dir"
       THEN Exit(1) /\ UNCHANGED <<mpc, files, idx>>
       ELSE mpc' = After(mpc) /\ files' = ReadDir /\ idx' = 1 /\ StillRunning
  /\ UNCHANGED <<workerVars, watcherVars, fsVars, envVars, filesChan,
                 interrupt, watching, events, sent>>

\* for _, file := range files { if ... { filesChan <- filepath.Join(...) } }
MainScan ==
  /\ Running /\ mpc = "scan"
  /\ IF idx > Len(files)
     THEN mpc' = After(mpc) /\ UNCHANGED <<idx, filesChan, sent, enq>>
     ELSE /\ IF ScanAccepts(files[idx].name, files[idx].kind)
             THEN Send(Join(QueueDirAbs, files[idx].name), "scan")
             ELSE UNCHANGED <<filesChan, sent, enq>>
          /\ idx' = idx + 1
          /\ UNCHANGED mpc
  /\ StillRunning
  /\ UNCHANGED <<files, workerVars, watcherVars, fsVars, created, atStart,
                 nops, boots, interrupt, watching, events>>

\* for range interrupt { fmt.Println("Interrupted!"); return }
MainWait ==
  /\ Running /\ mpc = "wait"
  /\ interrupt > 0
  /\ interrupt' = interrupt - 1
  /\ Exit(0)
  /\ UNCHANGED <<mainVars, workerVars, watcherVars, fsVars, envVars, filesChan,
                 watching, events, sent>>

(* ---------------- the worker goroutine ---------------- *)
\* for file := range filesChan: take the path, build the command line,
\* exec.Command(...), cmd.Run() starts the transcode command
WorkerRecv ==
  /\ Running /\ WorkerReady
  /\ filesChan # <<>>
  /\ wfile' = Head(filesChan)
  /\ filesChan' = Tail(filesChan)
  /\ wpc' = "run"
  /\ cmds' = cmds + 1
  /\ started' = started + 1
  /\ StillRunning
  /\ UNCHANGED <<lastJob, mainVars, watcherVars, fsVars, envVars, interrupt,
                 watching, events, sent>>

\* what the failure branch of cmd.Run() does to queue: nothing
FailureRemoves(q, file) == [q EXCEPT ![NameOf(file)] = "none"]
FailureQueue(q, file) == q

\* where the failure branch of cmd.Run() leads: log.Println, then the next
\* iteration of the range loop
AfterFailureRenames == "rename"
AfterFailure == "recv"

\* cmd.Run() returns: err == nil when the command exited zero and wrote its
\* output at workingFilepath; otherwise the command failed (or never
\* spawned) and may have left a partial file there
WorkerCmdExit ==
  /\ Running /\ wpc = "run"
  /\ cmds' = cmds - 1
  /\ \E ok \in BOOLEAN, partial \in BOOLEAN :
       LET out == Base(WorkingFilepath(wfile))
       IN IF ok
          THEN /\ working' = Put(working, out, [src |-> wfile, state |-> "complete"])
               /\ wpc' = "rename"
               /\ UNCHANGED <<lastJob, queue>>
          ELSE /\ working' = IF partial
                             THEN Put(working, out, [src |-> wfile, state |-> "partial"])
                             ELSE working
               /\ queue' = FailureQueue(queue, wfile)
               /\ wpc' = AfterFailure
               /\ lastJob' = [file |-> wfile, outcome |-> "failed"]
  /\ StillRunning
  /\ UNCHANGED <<wfile, started, mainVars, watcherVars, dirs, finished, envVars,
                 filesChan, interrupt, watching, events, sent>>

\* os.Rename(w, g): the file leaves working and replaces whatever g was
RenameCopies(wk, fin, w, g) ==
  [working |-> wk, finished |-> Put(fin, g, wk[w])]
Rename(wk, fin, w, g) ==
  [working |-> Del(wk, w), finished |-> Put(fin, g, wk[w])]

\* what a failed os.Rename leads to: os.Exit(1)
RenameFailureContinues == "remove"
RenameFailure == "exit"

\* err = os.Rename(workingFilepath, finishedFilePath); if err != nil { os.Exit(1) }
WorkerRename ==
  /\ Running /\ wpc = "rename"
  /\ \E renameErr \in BOOLEAN,
        w \in {Base(WorkingFilepath(wfile))},
        g \in {Base(FinishedFilePath(wfile))} :
          IF renameErr \/ w \notin DOMAIN working
          THEN IF RenameFailure = "exit"
               THEN /\ Exit(1)
                    /\ lastJob' = [file |-> wfile, outcome |-> "renameFailed"]
                    /\ UNCHANGED <<wpc, working, finished>>
               ELSE /\ wpc' = RenameFailure
                    /\ StillRunning
                    /\ lastJob' = [file |-> wfile, outcome |-> "renameFailed"]
                    /\ UNCHANGED <<working, finished>>
          ELSE /\ finished' = Rename(working, finished, w, g).finished
               /\ working' = Rename(working, finished, w, g).working
               /\ wpc' = "remove"
               /\ StillRunning
               /\ UNCHANGED lastJob
  /\ UNCHANGED <<wfile, cmds, started, mainVars, watcherVars, dirs, queue,
                 envVars, filesChan, interrupt, watching, events, sent>>

\* the event inotify reports for a change of a queue entry, when subscribed
Notify(op, name) ==
  IF watching
  THEN Append(events, [op |-> op, name |-> Join(QueueDirAbs, name)])
  ELSE events

\* _ = os.Remove(file): the error is dropped
WorkerRemove ==
  /\ Running /\ wpc = "remove"
  /\ \E removeErr \in BOOLEAN :
       IF removeErr \/ queue[NameOf(wfile)] = "none"
       THEN /\ lastJob' = [file |-> wfile, outcome |-> "removeFailed"]
            /\ UNCHANGED <<queue, events, enq>>
       ELSE /\ queue' = [queue EXCEPT ![NameOf(wfile)] = "none"]
            /\ events' = Notify("remove", NameOf(wfile))
            /\ enq' = [enq EXCEPT ![NameOf(wfile)] = 0]
            /\ lastJob' = [file |-> wfile, outcome |-> "finished"]
  /\ wpc' = "recv"
  /\ StillRunning
  /\ UNCHANGED <<wfile, cmds, started, mainVars, watcherVars, dirs, working,
                 finished, created, atStart, nops, boots, filesChan,
                 interrupt, watching, sent>>

(* ---------------- the watcher goroutine ---------------- *)
\* case event := <-watcher.Events: if event.Has(fsnotify.Create) {
\*   info, err := os.Stat(event.Name)
\*   if !os.IsNotExist(err) && !info.IsDir() && string(event.Name[0]) != "." {
\* a stat error other than "not exist" leaves info nil: info.IsDir() panics
WatcherEvent ==
  /\ Running /\ tpc = "select"
  /\ events # <<>>
  /\ events' = Tail(events)
  /\ LET e == Head(events)
         kind == queue[NameOf(e.name)]
     IN IF e.op # "create"
        THEN UNCHANGED <<tpc, tfile>> /\ StillRunning
        ELSE \E statErr \in BOOLEAN :
               IF statErr
               THEN Exit(2) /\ UNCHANGED <<tpc, tfile>>
               ELSE IF kind # "none" /\ WatcherAccepts(e.name, kind)
                    THEN tpc' = "send" /\ tfile' = e.name /\ StillRunning
                    ELSE UNCHANGED <<tpc, tfile>> /\ StillRunning
  /\ UNCHANGED <<mainVars, workerVars, fsVars, envVars, filesChan, interrupt,
                 watching, sent, werr>>

\* filesChan <- event.Name
WatcherSend ==
  /\ Running /\ tpc = "send"
  /\ Send(tfile, "watch")
  /\ tpc' = "select"
  /\ tfile' = NoFile
  /\ StillRunning
  /\ UNCHANGED <<mainVars, workerVars, fsVars, created, atStart, nops, boots,
                 interrupt, watching, events, werr>>

\* case err := <-watcher.Errors: log.Println("Error:", err); the loop goes on
AfterErrorReturns == "done"
AfterError == "select"

WatcherError ==
  /\ Running /\ tpc = "select"
  /\ werr = "pending"
  /\ werr' = "logged"
  /\ tpc' = AfterError
  /\ StillRunning
  /\ UNCHANGED <<tfile, mainVars, workerVars, fsVars, envVars, filesChan,
                 interrupt, watching, events, sent>>

(* ---------------- the environment ---------------- *)
\* Entries that appear or disappear while main is still setting up the
\* directories are part of the initial content of queue (Backlog); the
\* operator acts once the worker goroutine is started, which includes the
\* time before and after watcher.Add and the backlog listing.
OperatorActs == Running /\ PosOf(mpc) > PosOf("lookPath")

\* the operator creates (or moves) an entry into queue
EnvCreate ==
  /\ OperatorActs
  /\ dirs["queue"] = "dir"
  /\ nops < MaxOps
  /\ \E n \in Names :
       /\ queue[n] = "none"
       /\ queue' = [queue EXCEPT ![n] = KindOf(n)]
       /\ events' = Notify("create", n)
       /\ created' = created \cup {n}
       /\ enq' = [enq EXCEPT ![n] = 0]
  /\ nops' = nops + 1
  /\ UNCHANGED <<proc, exitCode, mainVars, workerVars, watcherVars, dirs,
                 working, finished, atStart, boots, filesChan, interrupt,
                 watching, sent>>

\* the operator removes (or moves away) an entry of queue
EnvRemove ==
  /\ OperatorActs
  /\ dirs["queue"] = "dir"
  /\ nops < MaxOps
  /\ \E n \in Names :
       /\ queue[n] # "none"
       /\ queue' = [queue EXCEPT ![n] = "none"]
       /\ events' = Notify("remove", n)
       /\ enq' = [enq EXCEPT ![n] = 0]
  /\ nops' = nops + 1
  /\ UNCHANGED <<proc, exitCode, mainVars, workerVars, watcherVars, dirs,
                 working, finished, created, atStart, boots, filesChan,
                 interrupt, watching, sent>>

\* the notification stream reports an error on watcher.Errors (an event
\* queue overflow, a failed read of the notification descriptor)
EnvError ==
  /\ OperatorActs
  /\ watching
  /\ nops < MaxOps
  /\ werr # "pending"
  /\ werr' = "pending"
  /\ nops' = nops + 1
  /\ UNCHANGED <<proc, exitCode, mainVars, workerVars, tpc, tfile, fsVars,
                 created, atStart, enq, boots, filesChan, interrupt, watching,
                 events, sent>>

\* signal.Notify(interrupt, os.Interrupt): a SIGINT is put in the channel,
\* or dropped when the channel is full
Signal ==
  /\ Running
  /\ interrupt < InterruptCap
  /\ interrupt' = interrupt + 1
  /\ UNCHANGED <<proc, exitCode, mainVars, workerVars, watcherVars, fsVars,
                 envVars, filesChan, watching, events, sent>>

Next ==
  \/ MainCheckBase
  \/ MainCreateDir
  \/ MainResetWorking
  \/ MainStartWorker
  \/ MainNewWatcher
  \/ MainWatcherAdd
  \/ MainReadDir
  \/ MainScan
  \/ MainWait
  \/ WorkerRecv
  \/ WorkerCmdExit
  \/ WorkerRename
  \/ WorkerRemove
  \/ WatcherEvent
  \/ WatcherSend
  \/ WatcherError
  \/ EnvCreate
  \/ EnvRemove
  \/ EnvError
  \/ Signal

Spec == Init /\ [][Next]_vars

(* ---------------- the fair specification ---------------- *)
\* one regular file is in queue at startup, the environment acts FairOps
\* times and no interrupt arrives (an interrupt ends the run, and with it
\* every obligation of the program)
OneFile == [NoEntries EXCEPT ![NameAM] = "file"]
InitFair == Start(AllDirs, OneFile)

NextFair ==
  \/ MainCheckBase
  \/ MainCreateDir
  \/ MainResetWorking
  \/ MainStartWorker
  \/ MainNewWatcher
  \/ MainWatcherAdd
  \/ MainReadDir
  \/ MainScan
  \/ WorkerRecv
  \/ WorkerCmdExit
  \/ WorkerRename
  \/ WorkerRemove
  \/ WatcherEvent
  \/ WatcherSend
  \/ WatcherError
  \/ (nops < FairOps /\ EnvCreate)
  \/ (nops < FairOps /\ EnvRemove)
  \/ (nops < FairOps /\ EnvError)

\* The Go scheduler runs every runnable goroutine, a select with a ready
\* case is taken, and every transcode command terminates; the operator and
\* the notification errors are under no obligation.
MainSteps ==
  \/ MainCheckBase \/ MainCreateDir \/ MainResetWorking \/ MainStartWorker
  \/ MainNewWatcher \/ MainWatcherAdd \/ MainReadDir \/ MainScan
WorkerSteps == WorkerRecv \/ WorkerCmdExit \/ WorkerRename \/ WorkerRemove
WatcherSteps == WatcherEvent \/ WatcherSend \/ WatcherError
Fairness ==
  /\ WF_vars(MainSteps)
  /\ WF_vars(WorkerSteps)
  /\ WF_vars(WatcherSteps)
FairSpec == InitFair /\ [][NextFair]_vars /\ Fairness

(* ---------------- the directory setup, run again ---------------- *)
\* every state of queue, upload, working and finished under an existing base
BootDirs ==
  {d \in [DirNames -> {"absent", "dir", "file"}] : d["base"] = "dir"}

InitBoot == \E d \in BootDirs : Start(d, NoEntries)

\* the program is started again on the same base path once its directory
\* setup has completed
Restart ==
  /\ Running /\ mpc = "lookPath"
  /\ boots < MaxRestarts
  /\ boots' = boots + 1
  /\ mpc' = "checkBase"
  /\ UNCHANGED <<proc, exitCode, files, idx, workerVars, watcherVars, fsVars,
                 created, atStart, nops, enq, filesChan, interrupt, watching,
                 events, sent>>

NextBoot ==
  \/ MainCheckBase
  \/ MainCreateDir
  \/ MainResetWorking
  \/ Restart

SpecBoot == InitBoot /\ [][NextBoot]_vars

(* ---------------- the worker on one input path ---------------- *)
\* file := <-filesChan for a file of any name over NameChars: the worker
\* computes outFile, workingFilepath and finishedFilePath from it
NameChars == {".", "a", "m"}
InputNames == UNION {[1..k -> NameChars] : k \in 1..MaxNameLen}

InitNaming ==
  \E n \in InputNames :
    /\ proc = "running"
    /\ exitCode = -1
    /\ mpc = "wait"
    /\ wpc = "recv"
    /\ tpc = "select"
    /\ dirs = AllDirs
    /\ queue = [m \in {n} |-> "file"]
    /\ working = EmptyDir
    /\ finished = EmptyDir
    /\ filesChan = <<Join(QueueDirAbs, n)>>
    /\ interrupt = 0
    /\ watching = TRUE
    /\ events = <<>>
    /\ files = <<[name |-> n, kind |-> "file"]>>
    /\ idx = 2
    /\ wfile = NoFile
    /\ tfile = NoFile
    /\ cmds = 0
    /\ started = 0
    /\ sent = <<[src |-> "scan", path |-> Join(QueueDirAbs, n)]>>
    /\ lastJob = NoJob
    /\ created = {}
    /\ atStart = [queue |-> queue, working |-> working]
    /\ nops = MaxOps
    /\ werr = "none"
    /\ enq = [m \in {n} |-> 1]
    /\ boots = 0

NextNaming ==
  \/ WorkerRecv
  \/ WorkerCmdExit
  \/ WorkerRename
  \/ WorkerRemove
  \/ WatcherEvent

SpecNaming == InitNaming /\ [][NextNaming]_vars

TypeOK ==
  /\ proc \in {"running", "exited"}
  /\ exitCode \in {-1, 0, 1, 2}
  /\ wpc \in {"notStarted", "recv", "run", "rename", "remove"}
  /\ tpc \in {"notStarted", "select", "send"}
  /\ cmds \in 0..1

(* ---------------- helpers of the properties ---------------- *)
SetupDone == PosOf(mpc) > PosOf("createFinished")
Hidden(name) == name[1] = "."
Eligible(name, kind) == kind = "file" /\ ~Hidden(name)
SentBy(src) == SelectSeq(sent, LAMBDA m : m.src = src)
SentCount(src, path) ==
  Cardinality({i \in DOMAIN sent : sent[i].src = src /\ sent[i].path = path})
Listed(name) == \E i \in DOMAIN files : files[i].name = name
\* the backlog paths main has sent so far, as the listing and the loop index give them
RECURSIVE ScanPrefix(_)
ScanPrefix(i) ==
  IF i = 0 THEN <<>>
  ELSE IF Eligible(files[i].name, files[i].kind)
       THEN Append(ScanPrefix(i - 1), [src |-> "scan", path |-> Join(QueueDirAbs, files[i].name)])
       ELSE ScanPrefix(i - 1)

(* ---------------- C1 ---------------- *)
\* C1: no path whose file name begins with '.' and no directory is ever put
\* on the work queue, neither by the backlog scan nor by the watcher.
NoHiddenOrDirEnqueued ==
  \A i \in DOMAIN sent :
    LET n == NameOf(sent[i].path)
    IN ~Hidden(n) /\ KindOf(n) # "dir"

(* ---------------- C2 ---------------- *)
\* C2: when the worker resolves a job whose command exited zero and whose
\* rename and removal succeeded, the input is gone from queue, the output is
\* in finished (complete, made from that input) and not in working.
SuccessPath ==
  [][(wpc = "remove" /\ lastJob' # lastJob /\ lastJob'.outcome = "finished")
       => LET out == Base(OutFile(wfile))
          IN /\ queue'[NameOf(wfile)] = "none"
             /\ out \in DOMAIN finished'
             /\ finished'[out] = [src |-> wfile, state |-> "complete"]
             /\ out \notin DOMAIN working']_vars

SuccessPathReached ==
  /\ lastJob.outcome = "finished"
  /\ queue[NameOf(lastJob.file)] = "none"
  /\ Base(OutFile(lastJob.file)) \in DOMAIN finished
  /\ Base(OutFile(lastJob.file)) \notin DOMAIN working

(* ---------------- C3 ---------------- *)
\* C3: when the transcode command of a dequeued input fails, the worker
\* renames nothing and removes nothing: queue and finished are unchanged by
\* the step and the worker goes back to its receive.
FailurePath ==
  [][(wpc = "run" /\ lastJob' # lastJob /\ lastJob'.outcome = "failed")
       => /\ queue' = queue
          /\ finished' = finished
          /\ events' = events
          /\ wpc' = "recv"]_vars

FailurePathReached ==
  /\ lastJob.outcome = "failed"
  /\ queue[NameOf(lastJob.file)] = "file"
  /\ Base(OutFile(lastJob.file)) \notin DOMAIN finished
  /\ wpc = "recv"

(* ---------------- C4 ---------------- *)
\* C4: at most one transcode command runs at any time, and a command is
\* started only when no command runs and the worker is back in its receive,
\* the previous job being resolved.
AtMostOneInFlight ==
  /\ [](cmds <= 1 /\ (cmds = 1 <=> wpc = "run"))
  /\ [][started' # started => (cmds = 0 /\ wpc = "recv" /\ cmds' = 1)]_vars

SecondJobInFlight ==
  /\ started >= 2
  /\ cmds = 1
  /\ lastJob.outcome # "none"

(* ---------------- C5 ---------------- *)
\* C5: a regular, non-hidden file present in queue when the process starts,
\* for which no creation event occurs during the run, is never sent by the
\* watcher and is sent at most once by the backlog scan; once the scan is
\* complete it has been sent exactly once if the listing contained it.
BacklogOnce ==
  \A n \in Names :
    (Eligible(n, atStart.queue[n]) /\ n \notin created) =>
       LET path == Join(QueueDirAbs, n)
       IN /\ SentCount("watch", path) = 0
          /\ SentCount("scan", path) <= 1
          /\ (mpc = "wait" /\ Listed(n)) => SentCount("scan", path) = 1

BacklogOnceReached ==
  /\ mpc = "wait"
  /\ watching
  /\ Len(SentBy("watch")) > 0
  /\ \E n \in Names :
       /\ Eligible(n, atStart.queue[n]) /\ n \notin created /\ Listed(n)
       /\ SentCount("scan", Join(QueueDirAbs, n)) = 1

(* ---------------- C6 ---------------- *)
\* C6, as claimed: every path sent by the backlog scan is sent (and so
\* reaches the worker) before any path the watcher sends for the live
\* creation of a regular, non-hidden file.
BacklogBeforeLive ==
  \A i \in DOMAIN sent : \A j \in DOMAIN sent :
    (sent[i].src = "watch" /\ ~Hidden(NameOf(sent[i].path))
       /\ sent[j].src = "scan") => j < i

\* C6, amended: the watcher is subscribed before the backlog listing is
\* taken, and the paths sent by the backlog scan are the eligible entries of
\* the listing up to the loop index, in listing order; a path from a live
\* event may be sent before or between them.
SubscribedBeforeScan ==
  /\ (mpc \in {"readDir", "scan", "wait"}) => (watching /\ tpc # "notStarted")
  /\ SentBy("scan") = ScanPrefix(idx - 1)

LiveBeforeBacklog ==
  /\ watching
  /\ \E i \in DOMAIN sent : \E j \in DOMAIN sent :
       /\ i < j /\ sent[i].src = "watch" /\ sent[j].src = "scan"
       /\ ~Hidden(NameOf(sent[i].path))

(* ---------------- C7 ---------------- *)
\* C7: once an interrupt signal has been received and until the process
\* has terminated, no transcode command is started.
NoStartAfterSignal ==
  [][interrupt > 0 => started' = started]_vars

(* ---------------- C8 ---------------- *)
\* C8: once the directory setup has completed, and until the first job is
\* dequeued, working exists and is empty whatever it contained at startup;
\* no job is dequeued before the setup has completed.
WorkingReset ==
  /\ (SetupDone /\ started = 0) => (dirs["working"] = "dir" /\ DOMAIN working = {})
  /\ ~SetupDone => (wpc = "notStarted" /\ started = 0 /\ sent = <<>>)

WorkingResetReached ==
  /\ SetupDone /\ wpc = "recv" /\ started = 0
  /\ DOMAIN atStart.working # {}
  /\ dirs["working"] = "dir" /\ DOMAIN working = {}

(* ---------------- C9 ---------------- *)
\* C9: when the rename of the output to finished fails, that step exits the
\* process with code 1 and changes no directory (the source stays in queue,
\* the output in working); after the exit no command is started.
RenameFatal ==
  [][/\ (wpc = "rename" /\ lastJob' # lastJob)
          => /\ proc' = "exited" /\ exitCode' = 1
             /\ queue' = queue /\ working' = working /\ finished' = finished
             /\ Base(OutFile(wfile)) \in DOMAIN working'
     /\ proc = "exited"
          => /\ started' = started /\ cmds' = cmds
             /\ queue' = queue /\ working' = working /\ finished' = finished]_vars

RenameFatalReached ==
  /\ lastJob.outcome = "renameFailed"
  /\ proc = "exited" /\ exitCode = 1
  /\ queue[NameOf(lastJob.file)] = "file"
  /\ Base(OutFile(lastJob.file)) \in DOMAIN working
  /\ Base(OutFile(lastJob.file)) \notin DOMAIN finished

(* ---------------- C10 ---------------- *)
\* C10, as claimed: an enqueue never waits for the worker: whenever the
\* watcher or the backlog scan has a path to send, the send can complete.
EnqueueNeverWaits ==
  /\ tpc = "send" => CanSend
  /\ (mpc = "scan" /\ idx <= Len(files)
        /\ ScanAccepts(files[idx].name, files[idx].kind)) => CanSend

\* C10, amended: filesChan is unbuffered: a path is on the channel only
\* while the worker is blocked in its receive with no command running, at
\* most one at a time, and every path sent is either taken or that one.
Rendezvous ==
  /\ Len(filesChan) <= 1
  /\ filesChan # <<>> => (wpc = "recv" /\ cmds = 0)
  /\ Len(sent) = started + Len(filesChan)

WatcherWaitsForWorker ==
  /\ proc = "running"
  /\ tpc = "send" /\ wpc = "run" /\ cmds = 1
  /\ filesChan = <<>>
  /\ ~CanSend

(* ---------------- C11 ---------------- *)
\* the steps after which the pipeline has to go on
CmdFails == wpc = "run" /\ cmds' = cmds - 1 /\ wpc' # "rename"
RemoveFails == wpc = "remove" /\ wpc' # wpc /\ queue' = queue
ErrorLogged == werr = "pending" /\ werr' = "logged"

\* C11: a failed transcode command, a failed removal of the source after a
\* successful move, and an error of the notification stream leave the process
\* running, the worker at its receive (so that it takes the next path put on
\* the work queue) and the watcher in its loop.
RecoverableErrors ==
  [][/\ ((CmdFails \/ RemoveFails)
           => (proc' = "running" /\ wpc' = "recv" /\ tpc' = tpc))
     /\ (ErrorLogged
           => (proc' = "running" /\ tpc' = "select" /\ wpc' = wpc))]_vars

\* after a notification error was logged and the removal of a source failed,
\* the next job is running and the watcher is in its loop
RecoveredAndStarted ==
  /\ proc = "running"
  /\ lastJob.outcome = "removeFailed"
  /\ queue[NameOf(lastJob.file)] # "none"
  /\ werr = "logged"
  /\ wpc = "run"
  /\ wfile # lastJob.file
  /\ tpc = "select"
(* ---------------- C12 ---------------- *)
\* C12: when the worker starts a transcode of the file whose transcode it has
\* just seen fail, the entry of that file was created anew in queue since the
\* enqueue that led to the failure: the path it takes is the first one put on
\* the work queue for the present entry.
NoRetry ==
  [][(started' = started + 1 /\ lastJob.outcome = "failed"
        /\ lastJob.file = Head(filesChan))
       => enq[NameOf(Head(filesChan))] <= 1]_vars

(* ---------------- C16 ---------------- *)
\* C16: an entry of queue is put on the work queue at most once, by the
\* backlog scan and the watcher together, since it appeared in queue.
AtMostOnceEnqueue ==
  \A n \in Names : queue[n] # "none" => enq[n] <= 1
(* ---------------- C13 ---------------- *)
\* the extension of a file name: the suffix from its last '.', absent when
\* the name has no '.'; the stem is what precedes it
RECURSIVE LastDot(_, _)
LastDot(n, i) ==
  IF i = 0 THEN 0 ELSE IF n[i] = "." THEN i ELSE LastDot(n, i - 1)
Stem(n) ==
  IF LastDot(n, Len(n)) = 0 THEN n ELSE SubSeq(n, 1, LastDot(n, Len(n)) - 1)
OutputName(file) == Stem(NameOf(file)) \o Mp4

\* C13: for the input path the worker has taken, the working path and the
\* finished path are the working and the finished directory joined with one
\* file name, the stem of the input's base name followed by ".mp4"; the
\* outputs the worker makes from the input carry that name.
OutputNaming ==
  wfile # NoFile =>
    /\ Base(wfile) = NameOf(wfile)
    /\ WorkingFilepath(wfile) = Join(WorkingDirAbs, OutputName(wfile))
    /\ FinishedFilePath(wfile) = Join(FinishedDirAbs, OutputName(wfile))
    /\ \A w \in DOMAIN working :
         working[w].src = wfile => w = OutputName(wfile)
    /\ \A g \in DOMAIN finished :
         finished[g].src = wfile => g = OutputName(wfile)

\* the output of an input whose name carries two dots is in finished
OutputNamed ==
  /\ wpc = "remove"
  /\ NameOf(wfile) = <<"a", ".", ".">>
  /\ DOMAIN finished = {<<"a", ".", ".", "m", "p", "4">>}
(* ---------------- C14 ---------------- *)
SetupDirs == {"queue", "upload", "working", "finished"}

\* C14: once the directory setup has completed on a base path, running it
\* again finds the four directories, every createDir of it returns no error
\* and the run leaves the directories as they are (an error can only come
\* from a failing file-system call); createDir creates an absent directory
\* without error, and on a path that is not a directory it returns an error,
\* leaves the path alone and the setup exits.
BootstrapIdempotent ==
  /\ [](boots >= 1 /\ Running
          => \A d \in SetupDirs :
               /\ dirs[d] = "dir"
               /\ createDir(dirs[d], FALSE, FALSE) = [err |-> FALSE, kind |-> "dir"])
  /\ [](ResetWorking(FALSE, FALSE, FALSE).err = FALSE)
  /\ [](\A d \in SetupDirs :
          dirs[d] = "absent"
            => createDir(dirs[d], FALSE, FALSE) = [err |-> FALSE, kind |-> "dir"])
  /\ [][(boots >= 1 /\ proc' = "running") => dirs' = dirs]_vars
  /\ [][(mpc \in DOMAIN CreateSteps /\ dirs[CreateSteps[mpc]] = "file")
          => (proc' = "exited" /\ exitCode' = 1 /\ dirs' = dirs)]_vars

\* the second directory setup has completed
SecondSetupDone ==
  /\ boots = 1
  /\ Running
  /\ mpc = "lookPath"
(* ---------------- C15 ---------------- *)
\* every path the backlog scan has to send is sent and taken by the worker
ScanHandedOver ==
  /\ SentBy("scan") = ScanPrefix(Len(files))
  /\ \A i \in DOMAIN sent : sent[i].src = "scan" => i <= started

\* C15: under fair scheduling of main, worker and watcher, with every
\* transcode command terminating, a backlog scan that has begun completes:
\* main reaches the interrupt wait with every eligible entry of the listing
\* handed to the worker, unless the process exits before.
StartupNoDeadlock ==
  (mpc = "scan") ~> (proc = "exited" \/ (mpc = "wait" /\ ScanHandedOver))

\* main waits for the interrupt, the backlog file handed over and resolved
ScanCompleted ==
  /\ Running
  /\ mpc = "wait"
  /\ Len(SentBy("scan")) = 1
  /\ ScanHandedOver
  /\ lastJob.outcome = "finished"
(* ---------------- C18 ---------------- *)
\* C18: under fair scheduling, once the listing of queue is taken, every
\* regular non-hidden file that is in queue (it was there at listing time or
\* was created since) is eventually put on the work queue, unless it is
\* removed from queue or the process exits before.
NoEligibleMissed ==
  \A n \in {m \in Names : Eligible(m, KindOf(m))} :
    (PosOf(mpc) > PosOf("readDir") /\ Eligible(n, queue[n]))
      ~> (enq[n] >= 1 \/ queue[n] # "file" \/ proc = "exited")

\* a file created after the listing was taken has been enqueued by the watcher
CreatedLaterEnqueued ==
  /\ NameAV \in created
  /\ ~Listed(NameAV)
  /\ PosOf(mpc) > PosOf("readDir")
  /\ queue[NameAV] = "file"
  /\ enq[NameAV] = 1
  /\ SentCount("watch", Join(QueueDirAbs, NameAV)) = 1
(* ---------------- C17 ---------------- *)
\* C17: in every state, whatever failed or exited before, every file in
\* finished is a complete output (the file system of a crashed process is
\* the one of the state it crashed in).
FinishedComplete ==
  \A g \in DOMAIN finished : finished[g].state = "complete"

\* an output is in finished while a later transcode has failed and left a
\* partial file in working
FinishedAfterFailure ==
  /\ DOMAIN finished # {}
  /\ lastJob.outcome = "failed"
  /\ \E w \in DOMAIN working : working[w].state = "partial"

(* ---------------- C19 ---------------- *)
\* C19: the step in which the watcher handles a creation event leaves the
\* process running, whatever the stat of the event's path returns.
CreateEventNeverFatal ==
  [][(tpc = "select" /\ events # <<>> /\ events' = Tail(events)
        /\ Head(events).op = "create")
       => proc' = "running"]_vars

(* ---------------- C20 ---------------- *)
\* C20: a rename into finished adds a file to finished: it never replaces
\* the output made from another input.
NoOutputOverwritten ==
  [][(wpc = "rename" /\ finished' # finished)
       => LET g == Base(FinishedFilePath(wfile))
          IN g \in DOMAIN finished => finished[g].src = wfile]_vars
====
